---- MODULE Spec2Model ----
(***************************************************************************)
(* GTFS2GMNS: the graph construction pipeline of src/src/gtfs2gmns.py.     *)
(*                                                                         *)
(* Data frames are sequences of records (position = row order).  Strings   *)
(* that the program composes, strips or sorts (route_id, the directed ids, *)
(* node names) are sequences of character codes, so that concatenation,    *)
(* strip('"') and lexicographic sorting are computed, not assumed.         *)
(* Coordinates are integers in units of 0.0001 degree and lengths are      *)
(* integers in millimetres.                                                *)
(***************************************************************************)
EXTENDS Integers, Sequences, FiniteSets, TLC

VARIABLES pc, gtfs, time_period, stop_time_df_with_terminal, frame, node_df, link_list, link_df,
          frame_size, node_id_range, disk, error, stop_time_df, trip_route_df

vars == <<pc, gtfs, time_period, stop_time_df_with_terminal, frame, node_df, link_list, link_df,
          frame_size, node_id_range, disk, error, stop_time_df, trip_route_df>>

(***************************************************************************)
(* Characters and strings                                                  *)
(***************************************************************************)
Quote == 34
Dot == 46
Colon == 58
Digit0 == 48
Minus == 45

RECURSIVE Str(_)
\* str(n) of a non-negative integer: its decimal digits
Str(n) == IF n < 10 THEN <<Digit0 + n>> ELSE Str(n \div 10) \o <<Digit0 + (n % 10)>>

\* int(s) of a (short) digit string; direction_id is one digit
IntOf(s) == s[1] - Digit0

RECURSIVE LStrip(_)
LStrip(s) == IF s # <<>> /\ Head(s) = Quote THEN LStrip(Tail(s)) ELSE s

RECURSIVE RStrip(_)
RStrip(s) == IF s # <<>> /\ s[Len(s)] = Quote THEN RStrip(SubSeq(s, 1, Len(s) - 1)) ELSE s

\* x.strip('"')
Strip(s) == RStrip(LStrip(s))

RECURSIVE StrLess(_, _)
\* Python's < on strings: lexicographic by code point
StrLess(a, b) ==
    IF b = <<>> THEN FALSE
    ELSE IF a = <<>> THEN TRUE
    ELSE IF Head(a) # Head(b) THEN Head(a) < Head(b)
    ELSE StrLess(Tail(a), Tail(b))

(***************************************************************************)
(* Frame primitives                                                        *)
(***************************************************************************)
Range(s) == {s[i] : i \in 1..Len(s)}

RECURSIVE Concat(_)
\* pd.concat of a list of frames, axis=0
Concat(ss) == IF ss = <<>> THEN <<>> ELSE Head(ss) \o Concat(Tail(ss))

RECURSIVE InsertNum(_, _)
InsertNum(x, s) ==
    IF s = <<>> THEN <<x>>
    ELSE IF x[1] < Head(s)[1] THEN <<x>> \o s
    ELSE <<Head(s)>> \o InsertNum(x, Tail(s))

RECURSIVE SortNum(_)
\* df.sort_values(by=<numeric column>) on <<key, row>> pairs; equal keys keep their order
SortNum(s) ==
    IF s = <<>> THEN <<>> ELSE InsertNum(s[Len(s)], SortNum(SubSeq(s, 1, Len(s) - 1)))

RECURSIVE InsertStr(_, _)
InsertStr(x, s) ==
    IF s = <<>> THEN <<x>>
    ELSE IF StrLess(x[1], Head(s)[1]) THEN <<x>> \o s
    ELSE <<Head(s)>> \o InsertStr(x, Tail(s))

RECURSIVE SortStr(_)
\* df.sort_values(by=<string column>) on <<key, row>> pairs
SortStr(s) ==
    IF s = <<>> THEN <<>> ELSE InsertStr(s[Len(s)], SortStr(SubSeq(s, 1, Len(s) - 1)))

\* the row part of a sequence of <<key, row>> pairs
Rows(pairs) == [i \in 1..Len(pairs) |-> pairs[i][2]]

RECURSIVE SelectBetween(_, _, _, _)
\* the rows of s at the positions lo..hi that are in keep, in order
SelectBetween(s, keep, lo, hi) ==
    IF lo > hi THEN <<>>
    ELSE IF lo = hi THEN (IF lo \in keep THEN <<s[lo]>> ELSE <<>>)
    ELSE LET mid == (lo + hi) \div 2
         IN SelectBetween(s, keep, lo, mid) \o SelectBetween(s, keep, mid + 1, hi)

\* the rows of s at the positions in keep, in order, from position i on
SelectIdx(s, keep, i) == SelectBetween(s, keep, i, Len(s))

\* df.drop_duplicates(subset=...): keys[i] is row i's subset value; first row of each key
DropDuplicatesFirst(s, keys) ==
    SelectIdx(s, {i \in 1..Len(s) : \A j \in 1..(i - 1) : keys[j] # keys[i]}, 1)

\* df.drop_duplicates(subset=..., keep='last')
DropDuplicatesLast(s, keys) ==
    SelectIdx(s, {i \in 1..Len(s) : \A j \in (i + 1)..Len(s) : keys[j] # keys[i]}, 1)

(***************************************************************************)
(* __init__ and the check of the required files                            *)
(***************************************************************************)
\* a file of the input folder is <<stem, extension>>
RequiredFiles ==
    {<<"agency", "txt">>, <<"stops", "txt">>, <<"routes", "txt">>, <<"trips", "txt">>,
     <<"stop_times", "txt">>}

\* the files in the first layer of the folder whose extension is txt
get_txt_files_from_folder(files) == {f \in files : f[2] = "txt"}

\* (mutant) one required file is enough
check_required_files_exist_any(required_files, dir_files) ==
    \E f \in required_files : f \in dir_files

\* all(mask), mask = [file in dir_files for file in required_files]
check_required_files_exist(required_files, dir_files) ==
    \A f \in required_files : f \in dir_files

(***************************************************************************)
(* read_gtfs_data                                                          *)
(***************************************************************************)
\* hhmm_to_minutes: "HHMM_HHMM" as <<HH, MM, HH, MM>> to (start, end) minutes since midnight
hhmm_to_minutes(tp) == <<tp[1] * 60 + tp[2], tp[3] * 60 + tp[4]>>

period_start_time == hhmm_to_minutes(time_period)[1]
period_end_time == hhmm_to_minutes(time_period)[2]

\* trips.txt after the direction recode and the directed_route_id column
TripDf(g) ==
    [i \in 1..Len(g.trips) |->
        LET t == g.trips[i]
            raw == IF g.has_direction THEN Str(t.direction_id) ELSE <<Digit0>>
            dir == Str(2 - IntOf(raw))
        IN [trip_id |-> t.trip_id, route_id |-> t.route_id, direction_id |-> dir,
            directed_route_id |-> t.route_id \o <<Dot>> \o dir]]

\* route_df['route_id'][0][0] == '"', likewise for trip_df
FirstIsQuoted(df) == df[1].route_id[1] = Quote

QuoteMismatch(g) == FirstIsQuoted(g.routes) # FirstIsQuoted(g.trips)

\* routes.txt after the quoting repair
RouteDfRepaired(g) ==
    IF QuoteMismatch(g) /\ FirstIsQuoted(g.routes)
    THEN [i \in 1..Len(g.routes) |-> [g.routes[i] EXCEPT !.route_id = Strip(@)]]
    ELSE g.routes

\* trip_df after the quoting repair: only route_id is rewritten
TripDfRepaired(g) ==
    IF QuoteMismatch(g) /\ ~FirstIsQuoted(g.routes)
    THEN [i \in 1..Len(g.trips) |-> [TripDf(g)[i] EXCEPT !.route_id = Strip(@)]]
    ELSE TripDf(g)

RECURSIVE MergeRows(_, _, _)
\* the rows of right whose key equals k, each joined to the left row l
MergeRows(l, right, keys) ==
    IF right = <<>> THEN <<>>
    ELSE (IF Head(keys) = l[1] THEN <<l[2] @@ Head(right)>> ELSE <<>>)
         \o MergeRows(l, Tail(right), Tail(keys))

RECURSIVE Merge(_, _, _, _)
\* pd.merge(left, right, on=key) (inner): left order, then right order per key;
\* lkeys and rkeys are the key columns
Merge(left, lkeys, right, rkeys) ==
    IF left = <<>> THEN <<>>
    ELSE MergeRows(<<Head(lkeys), Head(left)>>, right, rkeys)
         \o Merge(Tail(left), Tail(lkeys), right, rkeys)

Column(df, name) == [i \in 1..Len(df) |-> df[i][name]]

\* pd.merge(trip_df, route_df, on='route_id')
TripRouteDf(g) ==
    Merge(TripDfRepaired(g), Column(TripDfRepaired(g), "route_id"),
          RouteDfRepaired(g), Column(RouteDfRepaired(g), "route_id"))

\* (mutant) the time of day, the day forgotten
ToMinutesOfDay(t) == (t.h % 24) * 60 + t.m

\* (timedelta + datetime(2021, 1, 1)) as hour*60 + minute + 1440*(day - 1)
ToMinutes(t) == (t.h % 24) * 60 + t.m + 1440 * (((t.h \div 24) + 1) - 1)

\* the cells of a time column that are not a time: a missing value, the empty string
\* and a single blank
NaN == [nan |-> TRUE]
EmptyText == [text |-> ""]
Blank == [text |-> " "]

\* pd.read_csv: an empty field is read as a missing value, any other field as it is
ReadCsvCell(c) == IF c = EmptyText THEN NaN ELSE c

\* stop_times.txt as read
StopTimesRead(g) ==
    [i \in 1..Len(g.stop_times) |->
        [g.stop_times[i] EXCEPT !.arrival_time = ReadCsvCell(@),
                                !.departure_time = ReadCsvCell(@)]]

\* dropna(subset=['arrival_time']), then != '' and != ' ' on both time columns
KeptAtIngest(r) ==
    /\ r.arrival_time # NaN
    /\ r.arrival_time # EmptyText
    /\ r.departure_time # EmptyText
    /\ r.arrival_time # Blank
    /\ r.departure_time # Blank

\* the rows of stop_times.txt that reach the conversion of the time stamps
CleanStopTimes(df) == SelectIdx(df, {i \in 1..Len(df) : KeptAtIngest(df[i])}, 1)

\* pd.to_timedelta(x) + tt, then the lambda: a missing value stays missing (NaT
\* has no hour, minute or day)
ConvertCell(c) == IF c = NaN THEN NaN ELSE ToMinutes(c)

\* stop_time_df after the cleaning and the conversion of the time stamps
StopTimeDf(g) ==
    LET clean == CleanStopTimes(StopTimesRead(g))
    IN [i \in 1..Len(clean) |->
           [clean[i] EXCEPT !.arrival_time = ConvertCell(@),
                            !.departure_time = ConvertCell(@)]]

RECURSIVE SetToSortedSeq(_)
SetToSortedSeq(S) ==
    IF S = {} THEN <<>>
    ELSE LET m == CHOOSE x \in S : \A y \in S : x <= y
         IN <<m>> \o SetToSortedSeq(S \ {m})

\* one group of stop_time_df.groupby(['trip_id']), sorted by stop_sequence
TripStopTimeDf(df, trip_id) ==
    LET rows == SelectIdx(df, {i \in 1..Len(df) : df[i].trip_id = trip_id}, 1)
    IN Rows(SortNum([i \in 1..Len(rows) |-> <<rows[i].stop_sequence, rows[i]>>]))

MinArrival(rows) ==
    CHOOSE a \in Range(Column(rows, "arrival_time")) :
        \A b \in Range(Column(rows, "arrival_time")) : a <= b

\* (mutant) the end of the window excluded
InWindowEndExcluded(rows, start, end) == MinArrival(rows) < end /\ MinArrival(rows) >= start

\* mask1 and mask2
InWindow(rows, start, end) == MinArrival(rows) <= end /\ MinArrival(rows) >= start

\* input_list: the groups within the time window, in group order
InputList(df, start, end) ==
    LET ids == SetToSortedSeq(Range(Column(df, "trip_id")))
        groups == [i \in 1..Len(ids) |-> TripStopTimeDf(df, ids[i])]
    IN SelectIdx(groups, {i \in 1..Len(groups) : InWindow(groups[i], start, end)}, 1)

MinSeq(rows) ==
    CHOOSE a \in Range(Column(rows, "stop_sequence")) :
        \A b \in Range(Column(rows, "stop_sequence")) : a <= b

MaxSeq(rows) ==
    CHOOSE a \in Range(Column(rows, "stop_sequence")) :
        \A b \in Range(Column(rows, "stop_sequence")) : a >= b

\* the flag of one stop of a trip whose stop_sequence runs from lo to hi
TerminalFlag(seq, lo, hi) ==
    IF seq = lo THEN "origin" ELSE IF seq = hi THEN "destination" ELSE "intermediate"

determine_terminal_flag(rows) ==
    [i \in 1..Len(rows) |->
        rows[i] @@ [terminal_flag |->
            TerminalFlag(rows[i].stop_sequence, MinSeq(rows), MaxSeq(rows))]]

RECURSIVE JoinStopIds(_)
JoinStopIds(rows) ==
    IF rows = <<>> THEN <<>> ELSE Head(rows).stop_id \o JoinStopIds(Tail(rows))

\* one label per trip: the concatenation of its stop_ids in stop_sequence order
stop_sequence_label(rows) ==
    [i \in 1..Len(rows) |-> rows[i] @@ [stop_sequence_label |-> JoinStopIds(rows)]]

\* (mutant) the terminals determined over the whole table instead of per trip
OutputListWholeTable(df, start, end) ==
    LET input_list == InputList(df, start, end)
        flagged == determine_terminal_flag(Concat(input_list))
    IN [i \in 1..Len(input_list) |->
            stop_sequence_label(
                SelectIdx(flagged, {j \in 1..Len(flagged) :
                                       flagged[j].trip_id = input_list[i][1].trip_id}, 1))]

\* output_list: each surviving trip flagged and labelled on its own
OutputList(df, start, end) ==
    LET input_list == InputList(df, start, end)
    IN [i \in 1..Len(input_list) |->
            stop_sequence_label(determine_terminal_flag(input_list[i]))]

\* the three composite identifiers of one merged row
WithIds(r) ==
    LET directed_route_stop_id == r.directed_route_id \o <<Dot>> \o r.stop_id
    IN r @@ [directed_route_stop_id |-> directed_route_stop_id,
             directed_service_stop_id |->
                 directed_route_stop_id \o <<Colon>> \o r.stop_sequence_label,
             directed_service_id |->
                 r.directed_route_id \o <<Colon>> \o r.stop_sequence_label]

\* directed_trip_route_stop_time_df, given stop_time_df_with_terminal
EnrichedFrame(g, with_terminal) ==
    LET merged == Merge(TripRouteDf(g), Column(TripRouteDf(g), "trip_id"),
                        with_terminal, Column(with_terminal, "trip_id"))
        ids == [i \in 1..Len(merged) |-> WithIds(merged[i])]
        stops == Merge(ids, Column(ids, "stop_id"), g.stops, Column(g.stops, "stop_id"))
    IN [i \in 1..Len(stops) |-> stops[i] @@ [agency_name |-> g.agency_name]]

(***************************************************************************)
(* create_nodes                                                            *)
(***************************************************************************)
PhysicalBase == 1000000
ServiceBase == 1500000

\* np.linspace(1, n, n).astype('int32')[rank - 1] + 1000000
PhysicalNodeId(rank) == rank + PhysicalBase

\* (mutant) the service nodes numbered from the base of the physical nodes
ServiceNodeIdFromPhysicalBase(rank) == rank + PhysicalBase

\* np.linspace(1, n, n).astype('int32')[rank - 1] + 1500000
ServiceNodeId(rank) == rank + ServiceBase

\* frame.drop_duplicates(subset=[key]) as rows [index, row]: pandas keeps each
\* surviving row's index label (its position in the frame)
TempDf(fr, key) ==
    LET idx == [i \in 1..Len(fr) |-> [index |-> i, row |-> fr[i]]]
    IN DropDuplicatesFirst(idx, Column(fr, key))

\* (mutant) the columns assigned by position, as if the sort had kept the row order
AlignedRowByPosition(temp_df, index, position) == temp_df[position].row

\* node_df[col] = temp_df[col]: the value for the node row with this index label
\* (at this position of the sorted node table) is temp_df's row of the same label
AlignedRow(temp_df, index, position) ==
    (CHOOSE t \in Range(temp_df) : t.index = index).row

\* the index labels of temp_df in the order of sort_values(by=['name'])
SortedIndex(temp_df, key) ==
    Rows(SortStr([i \in 1..Len(temp_df) |-> <<temp_df[i].row[key], temp_df[i].index>>]))

PhysicalNodeDf(fr) ==
    LET temp_df == TempDf(fr, "stop_id")
        order == SortedIndex(temp_df, "stop_id")
    IN [k \in 1..Len(order) |->
          LET src == AlignedRow(temp_df, order[k], k)
          IN [name |-> fr[order[k]].stop_id,
              node_id |-> PhysicalNodeId(k),
              physical_node_id |-> PhysicalNodeId(k),
              x_coord |-> src.stop_lon,
              y_coord |-> src.stop_lat,
              route_type |-> src.route_type,
              route_id |-> src.route_id,
              directed_route_id |-> <<>>,
              directed_service_id |-> <<>>,
              agency_name |-> src.agency_name,
              terminal_flag |-> src.terminal_flag]]

\* stop_name_id_dict[stop_id]: dict(zip(name, node_id)) keeps the last entry of a key
StopNameId(physical_node_df, stop_id) ==
    LET last == CHOOSE i \in 1..Len(physical_node_df) :
                    /\ physical_node_df[i].name = stop_id
                    /\ \A j \in (i + 1)..Len(physical_node_df) :
                           physical_node_df[j].name # stop_id
    IN physical_node_df[last].node_id

CoordOffset == 1

ServiceNodeDf(fr) ==
    LET temp_df == TempDf(fr, "directed_service_stop_id")
        order == SortedIndex(temp_df, "directed_service_stop_id")
        physical_node_df == PhysicalNodeDf(fr)
    IN [k \in 1..Len(order) |->
          LET src == AlignedRow(temp_df, order[k], k)
          IN [name |-> fr[order[k]].directed_service_stop_id,
              node_id |-> ServiceNodeId(k),
              physical_node_id |-> StopNameId(physical_node_df, src.stop_id),
              x_coord |-> src.stop_lon - CoordOffset,
              y_coord |-> src.stop_lat - CoordOffset,
              route_type |-> src.route_type,
              route_id |-> src.route_id,
              directed_route_id |-> src.directed_route_id,
              directed_service_id |-> src.directed_service_id,
              agency_name |-> src.agency_name,
              terminal_flag |-> src.terminal_flag]]

\* pd.concat([physical_node_df, service_node_df]), then main's reset_index
NodeDf(fr) == PhysicalNodeDf(fr) \o ServiceNodeDf(fr)

(***************************************************************************)
(* create_service_boarding_links                                           *)
(***************************************************************************)
RECURSIVE ISqrtIn(_, _, _)
\* the largest r in lo..hi with r*r <= n
ISqrtIn(n, lo, hi) ==
    IF lo = hi THEN lo
    ELSE LET mid == (lo + hi + 1) \div 2
         IN IF mid * mid <= n THEN ISqrtIn(n, mid, hi) ELSE ISqrtIn(n, lo, mid - 1)

ISqrt(n) == ISqrtIn(n, 0, 46340)

MmPerCentiUnit == 111

\* calculate_distance_from_geometry: the distance in millimetres between two points
\* given in units of 0.0001 degree (planar, 11.1 m per unit)
calculate_distance_from_geometry(from_lon, from_lat, to_lon, to_lat) ==
    LET dx == to_lon - from_lon
        dy == to_lat - from_lat
    IN ISqrt((dx * dx + dy * dy) * 10000) * MmPerCentiUnit

\* d[key] of d = dict(zip(node_df[keycol], node_df[valcol])): the last row of a key wins
DictGet(node_df_, keycol, valcol, key) ==
    LET last == CHOOSE i \in 1..Len(node_df_) :
                    /\ node_df_[i][keycol] = key
                    /\ \A j \in (i + 1)..Len(node_df_) : node_df_[j][keycol] # key
    IN node_df_[last][valcol]

RECURSIVE SortedStrings(_)
\* the keys of a groupby on a string column, in sorted order
SortedStrings(S) ==
    IF S = {} THEN <<>>
    ELSE LET m == CHOOSE x \in S : \A y \in S \ {x} : StrLess(x, y)
         IN <<m>> \o SortedStrings(S \ {m})

\* route_df of one group of frame.groupby('directed_service_id')
ServiceGroup(fr, directed_service_id) ==
    SelectIdx(fr, {i \in 1..Len(fr) : fr[i].directed_service_id = directed_service_id}, 1)

\* len(route_df.trip_id.unique())
NumberOfTrips(route_df) == Cardinality(Range(Column(route_df, "trip_id")))

\* route_df[route_df.trip_id == route_df.trip_id.unique()[0]] sorted by stop_sequence
OneLineDf(route_df) ==
    LET rows == SelectIdx(route_df,
                    {i \in 1..Len(route_df) : route_df[i].trip_id = route_df[1].trip_id}, 1)
    IN Rows(SortNum([i \in 1..Len(rows) |-> <<rows[i].stop_sequence, rows[i]>>]))

LinkIdBase == 1000000

\* the service links of one directed service; done = number_of_route_links so far
ServiceLinksOf(route_df, node_df_, done) ==
    LET one_line_df == OneLineDf(route_df)
    IN [k \in 1..(Len(one_line_df) - 1) |->
          [link_id |-> LinkIdBase + (done + k - 1) + 1,
           from_node_id |-> DictGet(node_df_, "name", "node_id",
                                    one_line_df[k].directed_service_stop_id),
           to_node_id |-> DictGet(node_df_, "name", "node_id",
                                  one_line_df[k + 1].directed_service_stop_id),
           directed_route_id |-> one_line_df[k].directed_route_id,
           link_type |-> 1,
           length |-> calculate_distance_from_geometry(
                          one_line_df[k].stop_lon, one_line_df[k].stop_lat,
                          one_line_df[k + 1].stop_lon, one_line_df[k + 1].stop_lat),
           lanes |-> NumberOfTrips(route_df),
           VDF_fftt1 |-> <<one_line_df[k + 1].arrival_time - one_line_df[k].arrival_time, 1>>,
           stop_sequence |-> Str(one_line_df[k].stop_sequence),
           directed_service_id |-> one_line_df[k].directed_service_id]]

RECURSIVE ServiceLinksFrom(_, _, _, _)
\* the loop over the groups, in key order
ServiceLinksFrom(fr, node_df_, ids, done) ==
    IF ids = <<>> THEN <<>>
    ELSE LET links == ServiceLinksOf(ServiceGroup(fr, Head(ids)), node_df_, done)
         IN links \o ServiceLinksFrom(fr, node_df_, Tail(ids), done + Len(links))

ServiceLinks(fr, node_df_) ==
    ServiceLinksFrom(fr, node_df_,
                     SortedStrings(Range(Column(fr, "directed_service_id"))), 0)

\* frequency_dict[directed_service_id]
Frequency(fr, directed_service_id) == NumberOfTrips(ServiceGroup(fr, directed_service_id))

MaxWait == 10

\* (mutant) the wait without its cap
BoardingFfttUncapped(start, end, frequency) == <<end - start, 2 * frequency>>

\* min(0.5 * ((end - start) / frequency), 10) as a fraction <<numerator, denominator>>
BoardingFftt(start, end, frequency) ==
    IF (end - start) < MaxWait * 2 * frequency
    THEN <<end - start, 2 * frequency>>
    ELSE <<MaxWait, 1>>

\* (mutant) the filter inverted: the physical rows are taken for service nodes
SelectServiceNodesInverted(node_df_) ==
    SelectIdx(node_df_,
              {i \in 1..Len(node_df_) : node_df_[i].node_id = node_df_[i].physical_node_id}, 1)

\* node_df[node_df.node_id != node_df.physical_node_id]
SelectServiceNodes(node_df_) ==
    SelectIdx(node_df_,
              {i \in 1..Len(node_df_) : node_df_[i].node_id # node_df_[i].physical_node_id}, 1)

\* the inbound and the outbound link of the service node row; n = its position (from
\* 1) in service_node_df, so number_of_sta2route_links = 2 * (n - 1) on entry
BoardingLinksOf(row, n, fr, node_df_, number_of_route_links, start, end) ==
    LET length == calculate_distance_from_geometry(
                      DictGet(node_df_, "node_id", "x_coord", row.physical_node_id),
                      DictGet(node_df_, "node_id", "y_coord", row.physical_node_id),
                      row.x_coord, row.y_coord)
        common == [directed_route_id |-> row.directed_route_id,
                   link_type |-> 2,
                   length |-> length,
                   lanes |-> 1,
                   stop_sequence |-> <<Minus>> \o Str(1),
                   directed_service_id |->
                       DictGet(node_df_, "node_id", "name", row.node_id)]
        inbound == [link_id |-> LinkIdBase + number_of_route_links + 2 * (n - 1),
                    from_node_id |-> row.physical_node_id,
                    to_node_id |-> row.node_id,
                    VDF_fftt1 |-> BoardingFftt(start, end,
                                      Frequency(fr, row.directed_service_id))] @@ common
        outbound == [link_id |-> LinkIdBase + number_of_route_links + 2 * (n - 1) + 1,
                     from_node_id |-> row.node_id,
                     to_node_id |-> row.physical_node_id,
                     VDF_fftt1 |-> <<1, 1>>] @@ common
    IN <<inbound, outbound>>

BoardingLinks(fr, node_df_, number_of_route_links, start, end) ==
    LET service_node_df == SelectServiceNodes(node_df_)
    IN Concat([n \in 1..Len(service_node_df) |->
                  BoardingLinksOf(service_node_df[n], n, fr, node_df_,
                                  number_of_route_links, start, end)])

\* one_agency_link_list on return
ServiceBoardingLinks(fr, node_df_, start, end) ==
    LET service == ServiceLinks(fr, node_df_)
    IN service \o BoardingLinks(fr, node_df_, Len(service), start, end)

(***************************************************************************)
(* create_transferring_links                                               *)
(***************************************************************************)
BoxHalfWidth == 30
MaxTransferLength == 321869
MinTransferLength == 1000
MaxTransfers == 10

\* all_node_df[all_node_df.node_id == all_node_df.physical_node_id]
SelectPhysicalNodes(node_df_) ==
    SelectIdx(node_df_,
              {i \in 1..Len(node_df_) : node_df_[i].node_id = node_df_[i].physical_node_id}, 1)

\* mask1 & mask2 & mask3 & mask4
InBox(ref, n) ==
    /\ n.x_coord >= ref.x_coord - BoxHalfWidth
    /\ n.x_coord <= ref.x_coord + BoxHalfWidth
    /\ n.y_coord >= ref.y_coord - BoxHalfWidth
    /\ n.y_coord <= ref.y_coord + BoxHalfWidth

NeighboringNodeDf(physical_node_df, ref) ==
    SelectIdx(physical_node_df,
              {i \in 1..Len(physical_node_df) : InBox(ref, physical_node_df[i])}, 1)

RouteKey(n) == <<n.route_id, n.agency_name>>

\* the first continue of the inner loop
SameLine(p, q) == RouteKey(p) = RouteKey(q)

\* (mutant) the lower limit forgotten
OutOfRangeUpperOnly(length) == length > MaxTransferLength

\* (length > 321.869) | (length < 1)
OutOfRange(length) == length > MaxTransferLength \/ length < MinTransferLength

NodeDistance(p, q) ==
    calculate_distance_from_geometry(p.x_coord, p.y_coord, q.x_coord, q.y_coord)

\* (mutant) only the link from p to q is emitted
TransferPairOneWay(p, q, done) ==
    << [link_id |-> done + 1, from_node_id |-> p.node_id, to_node_id |-> q.node_id,
        directed_route_id |-> <<Minus>> \o Str(1), link_type |-> 3,
        length |-> NodeDistance(p, q), lanes |-> 1,
        VDF_fftt1 |-> <<NodeDistance(p, q), 1000000>>,
        stop_sequence |-> <<>>, directed_service_id |-> <<>>] >>

\* the reciprocal pair emitted for p and q; done = number_of_transferring_links
TransferPair(p, q, done) ==
    LET common == [directed_route_id |-> <<Minus>> \o Str(1),
                   link_type |-> 3,
                   length |-> NodeDistance(p, q),
                   lanes |-> 1,
                   VDF_fftt1 |-> <<NodeDistance(p, q), 1000000>>,
                   stop_sequence |-> <<>>,
                   directed_service_id |-> <<>>]
    IN << [link_id |-> done + 1, from_node_id |-> p.node_id,
           to_node_id |-> q.node_id] @@ common,
          [link_id |-> done + 2, from_node_id |-> q.node_id,
           to_node_id |-> p.node_id] @@ common >>

RECURSIVE TransferScanUncapped(_, _, _, _, _, _)
\* (mutant) the loop over j without the cap on count
TransferScanUncapped(p, neighboring_node_df, j, labeled_list, count, done) ==
    IF j > Len(neighboring_node_df) THEN <<>>
    ELSE LET q == neighboring_node_df[j]
         IN IF \/ SameLine(p, q)
               \/ OutOfRange(NodeDistance(p, q))
               \/ RouteKey(q) \in labeled_list
            THEN TransferScanUncapped(p, neighboring_node_df, j + 1, labeled_list, count, done)
            ELSE TransferPair(p, q, done)
                 \o TransferScanUncapped(p, neighboring_node_df, j + 1,
                                         labeled_list \cup {RouteKey(q)}, count + 1, done + 2)

RECURSIVE TransferScan(_, _, _, _, _, _)
\* the loop over j for the origin p, from candidate j on
TransferScan(p, neighboring_node_df, j, labeled_list, count, done) ==
    IF j > Len(neighboring_node_df) \/ count >= MaxTransfers THEN <<>>
    ELSE LET q == neighboring_node_df[j]
         IN IF \/ SameLine(p, q)
               \/ OutOfRange(NodeDistance(p, q))
               \/ RouteKey(q) \in labeled_list
            THEN TransferScan(p, neighboring_node_df, j + 1, labeled_list, count, done)
            ELSE TransferPair(p, q, done)
                 \o TransferScan(p, neighboring_node_df, j + 1,
                                 labeled_list \cup {RouteKey(q)}, count + 1, done + 2)

RECURSIVE TransferFrom(_, _, _)
\* the loop over i, from origin i on
TransferFrom(physical_node_df, i, done) ==
    IF i > Len(physical_node_df) THEN <<>>
    ELSE LET p == physical_node_df[i]
             links == TransferScan(p, NeighboringNodeDf(physical_node_df, p),
                                   1, {}, 0, done)
         IN links \o TransferFrom(physical_node_df, i + 1, done + Len(links))

\* the links create_transferring_links appends to all_link_list
TransferringLinks(node_df_) == TransferFrom(SelectPhysicalNodes(node_df_), 1, 0)

(***************************************************************************)
(* main                                                                    *)
(***************************************************************************)
\* (mutant) the duplicates decided on from_node_id alone
EndpointPairFromOnly(l) == <<l.from_node_id>>

\* the subset of drop_duplicates
EndpointPair(l) == <<l.from_node_id, l.to_node_id>>

\* (mutant) drop_duplicates with its default keep='first'
DedupLinksKeepFirst(all_link_list) ==
    DropDuplicatesFirst(all_link_list,
                        [i \in 1..Len(all_link_list) |-> EndpointPair(all_link_list[i])])

\* all_link_df.drop_duplicates(subset=['from_node_id', 'to_node_id'], keep='last')
DedupLinks(all_link_list) ==
    DropDuplicatesLast(all_link_list,
                       [i \in 1..Len(all_link_list) |-> EndpointPair(all_link_list[i])])

(***************************************************************************)
(* Inputs: GTFS folders and time periods                                   *)
(***************************************************************************)
MaxLen == 3
MaxLen2 == 2

StopIds == << <<65>>, <<66>>, <<67>> >>
R1 == <<82, 49>>
R2 == <<82, 50>>
Quoted(s) == <<Quote>> \o s \o <<Quote>>

\* the ordered stop lists of 1..n visits (a stop may be visited more than once)
Patterns(n) == UNION {[1..k -> Range(StopIds)] : k \in 1..n}

\* first arrivals (minutes since midnight) around the window 0700_0800
Starts == {415, 420, 480, 481}
Headway == 10

Hms(minutes) == [h |-> minutes \div 60, m |-> minutes % 60, s |-> 0]

\* the stop_times.txt rows of one trip, listed last stop first
StopTimesOf(trip_id, pattern, start) ==
    [k \in 1..Len(pattern) |->
        LET seq == Len(pattern) + 1 - k
        IN [trip_id |-> trip_id, stop_sequence |-> seq, stop_id |-> pattern[seq],
            arrival_time |-> Hms(start + Headway * (seq - 1)),
            departure_time |-> Hms(start + Headway * (seq - 1))]]

\* stops.txt with the stops at the given <<lon, lat>> points
StopsAt(layout) ==
    [i \in 1..Len(StopIds) |->
        [stop_id |-> StopIds[i], stop_lon |-> layout[i][1], stop_lat |-> layout[i][2]]]

DefaultLayout == << <<0, 0>>, <<10, 0>>, <<10, 40>> >>

RoutesTxt(quoted) ==
    << [route_id |-> IF quoted THEN Quoted(R1) ELSE R1, route_type |-> 3],
       [route_id |-> IF quoted THEN Quoted(R2) ELSE R2, route_type |-> 1] >>

Trip(trip_id, route_id, direction_id) ==
    [trip_id |-> trip_id, route_id |-> route_id, direction_id |-> direction_id]

Folder(stops, routes, trips, has_direction, stop_times) ==
    [agency_name |-> "agency", stops |-> stops, routes |-> routes, trips |-> trips,
     has_direction |-> has_direction, stop_times |-> stop_times]

\* one or two trips of any stop pattern and start time; plain route ids
StructureFolders ==
    {Folder(StopsAt(DefaultLayout), RoutesTxt(FALSE), <<Trip(20, R1, 0)>>, TRUE,
            StopTimesOf(20, p, s)) : p \in Patterns(MaxLen), s \in Starts}
    \cup
    {Folder(StopsAt(DefaultLayout), RoutesTxt(FALSE),
            <<Trip(20, R1, 0), Trip(10, x[1], 0)>>, TRUE,
            StopTimesOf(20, x[2], x[3]) \o StopTimesOf(10, x[4], x[5])) :
        x \in {R1, R2} \X Patterns(MaxLen) \X {415, 420} \X Patterns(MaxLen2) \X {420, 481}}

\* quoted route ids in routes.txt, in trips.txt or in neither; direction_id 0/1 or no column
FormatFolders ==
    {Folder(StopsAt(DefaultLayout), RoutesTxt(x[1] = "routes"),
            << Trip(20, IF x[1] = "trips" THEN Quoted(R1) ELSE R1, x[3]),
               Trip(10, IF x[1] = "trips" THEN Quoted(R2) ELSE R2, x[4]) >>, x[2],
            StopTimesOf(20, <<StopIds[1], StopIds[2]>>, 430)
                \o StopTimesOf(10, <<StopIds[2], StopIds[3]>>, 440)) :
        x \in {"none", "routes", "trips"} \X BOOLEAN \X {0, 1} \X {0, 1}}

\* points around the origin: at it, inside and outside the length window and the box
Points == {<<0, 0>>, <<28, 0>>, <<29, 0>>, <<30, 0>>, <<31, 0>>, <<20, 20>>, <<0, -30>>}

\* two routes with stops at varying distances
GeometryFolders ==
    {Folder(StopsAt(<< <<0, 0>>, x[1], x[2] >>), RoutesTxt(FALSE),
            <<Trip(20, R1, 0), Trip(10, R2, 0)>>, TRUE,
            StopTimesOf(20, <<StopIds[1]>> \o x[3], 430)
                \o StopTimesOf(10, <<StopIds[2], StopIds[3]>>, 440)) :
        x \in Points \X Points \X {<<>>, <<StopIds[3]>>}}

Folders == StructureFolders \cup FormatFolders \cup GeometryFolders

Periods == {<<7, 0, 8, 0>>}

\* the folder used for the runs on incomplete disks
DiskFolder ==
    Folder(StopsAt(DefaultLayout), RoutesTxt(FALSE), <<Trip(20, R1, 0)>>, TRUE,
           StopTimesOf(20, <<StopIds[1], StopIds[2]>>, 430))

\* the files a folder may hold: the required ones, one of them under another
\* extension and an optional GTFS file
FileNames == RequiredFiles \cup {<<"agency", "csv">>, <<"shapes", "txt">>}

\* the input and output directory exist or not; a missing input directory holds no file
Disks ==
    {[gtfs_dir |-> TRUE, gtfs_result_dir |-> o, files |-> f] :
        o \in BOOLEAN, f \in SUBSET FileNames}
    \cup {[gtfs_dir |-> FALSE, gtfs_result_dir |-> o, files |-> {}] : o \in BOOLEAN}

\* the cell HH:MM:SS
Time(h, m, s) == [h |-> h, m |-> m, s |-> s]

StopTimeRow(trip_id, seq, stop_id, arrival_cell, departure_cell) ==
    [trip_id |-> trip_id, stop_sequence |-> seq, stop_id |-> stop_id,
     arrival_time |-> arrival_cell, departure_time |-> departure_cell]

\* times at the bounds of the window 0700_0800, around midnight and past it
TimeCells ==
    {Time(6, 59, 59), Time(7, 0, 0), Time(8, 0, 30), Time(8, 1, 0), Time(23, 59, 0),
     Time(24, 0, 0), Time(25, 10, 0), Time(31, 0, 0), Time(99, 59, 59)}

\* one trip of two stops with any two of these times; the second stop's departure cell
\* is not its arrival cell
OverflowFolders ==
    {Folder(StopsAt(DefaultLayout), RoutesTxt(FALSE), <<Trip(20, R1, 0)>>, TRUE,
            << StopTimeRow(20, 1, StopIds[1], x[1], x[1]),
               StopTimeRow(20, 2, StopIds[2], x[2], [x[2] EXCEPT !.m = (@ + 1) % 60]) >>) :
        x \in TimeCells \X TimeCells}

\* what a time cell of stop_times.txt may hold instead of a time: a missing value
\* (NA, null), nothing, a single blank
BadCells == {NaN, EmptyText, Blank}

\* one trip of three stops in the window; the arrival and departure cells of one of
\* its rows are a time or any bad cell
BlankFolders ==
    {Folder(StopsAt(DefaultLayout), RoutesTxt(FALSE), <<Trip(20, R1, 0)>>, TRUE,
            [k \in 1..3 |->
                StopTimeRow(20, k, StopIds[k],
                            IF k = x[1] THEN x[2] ELSE Time(7, 10 * k, 0),
                            IF k = x[1] THEN x[3] ELSE Time(7, 10 * k, 30))]) :
        x \in (1..3) \X ({Time(7, 15, 0)} \cup BadCells) \X ({Time(7, 15, 30)} \cup BadCells)}

\* a route_id that routes.txt does not list
R9 == <<82, 57>>

\* three trips; the first is on a listed route, the others on a listed route or on
\* the unlisted one
OrphanFolders ==
    {Folder(StopsAt(DefaultLayout), RoutesTxt(FALSE),
            <<Trip(20, R1, 0), Trip(10, x[1], 0), Trip(30, x[2], 0)>>, TRUE,
            StopTimesOf(20, <<StopIds[1], StopIds[2]>>, 430)
                \o StopTimesOf(10, x[3], x[4])
                \o StopTimesOf(30, <<StopIds[1], StopIds[2]>>, 440)) :
        x \in {R1, R2, R9} \X {R1, R2, R9}
                \X {<<StopIds[1], StopIds[2]>>, <<StopIds[2], StopIds[3]>>} \X {430, 481}}

\* a reference stop (number 0) and up to MaxCandidates stops around it, each served
\* by one trip of its own route
MaxCandidates == 12
MinCandidates == MaxCandidates - 3

CapStopId(i) == <<65 + i>>
CapRouteId(i) == <<82, 65 + i>>

\* the stops around the reference are the platforms of one interchange, 55.5 m east
\* of it; the special stop c is out of the length window (but in the box) or at the
\* reference itself
CapPoint(i, special, c) ==
    IF i = 0 THEN <<0, 0>>
    ELSE IF i = c /\ special = "far" THEN <<29, 0>>
    ELSE IF i = c /\ special = "same_point" THEN <<0, 0>>
    ELSE <<5, 0>>

\* the special stop c is served by the route of the stop before it or by the route
\* of the reference
CapRouteOf(i, special, c) ==
    IF i = c /\ special = "same_route" THEN CapRouteId(i - 1)
    ELSE IF i = c /\ special = "reference_route" THEN CapRouteId(0)
    ELSE CapRouteId(i)

CapFolder(n, special, c) ==
    Folder([i \in 1..(n + 1) |->
               [stop_id |-> CapStopId(i - 1), stop_lon |-> CapPoint(i - 1, special, c)[1],
                stop_lat |-> CapPoint(i - 1, special, c)[2]]],
           [i \in 1..(n + 1) |-> [route_id |-> CapRouteId(i - 1), route_type |-> 3]],
           [i \in 1..(n + 1) |-> Trip(100 + i - 1, CapRouteOf(i - 1, special, c), 0)],
           TRUE,
           [i \in 1..(n + 1) |->
               StopTimeRow(100 + i - 1, 1, CapStopId(i - 1), Time(7, 10, 0), Time(7, 10, 0))])

CapFolders ==
    {CapFolder(n, "none", 0) : n \in MinCandidates..MaxCandidates}
    \cup {CapFolder(x[1], x[2], x[3]) :
             x \in {y \in (MinCandidates..MaxCandidates)
                              \X {"far", "same_point", "same_route", "reference_route"}
                              \X (2..MaxCandidates) : y[3] \in {2, y[1]}}}

\* four trips of one route, each over two or three stops and starting at 07:05 or
\* at 08:05
FrequencyFolders ==
    {Folder(StopsAt(DefaultLayout), RoutesTxt(FALSE),
            <<Trip(20, R1, 0), Trip(10, R1, 0), Trip(30, R1, 0), Trip(40, R1, 0)>>, TRUE,
            StopTimesOf(20, x[1][1], x[1][2]) \o StopTimesOf(10, x[2][1], x[2][2])
                \o StopTimesOf(30, x[3][1], x[3][2]) \o StopTimesOf(40, x[4][1], x[4][2])) :
        x \in [1..4 -> {<<StopIds[1], StopIds[2]>>, <<StopIds[1], StopIds[2], StopIds[3]>>}
                           \X {425, 485}]}

\* windows of 60, 30, 20 and 10 minutes from 07:00
WaitPeriods == {<<7, 0, 8, 0>>, <<7, 0, 7, 30>>, <<7, 0, 7, 20>>, <<7, 0, 7, 10>>}

(***************************************************************************)
(* The run: GTFS2GMNS(gtfs_dir, gtfs_result_dir, time_period).main()       *)
(***************************************************************************)
CompleteDisk == [gtfs_dir |-> TRUE, gtfs_result_dir |-> TRUE, files |-> RequiredFiles]

\* a run on one of the folders, for one of the periods
Start(folders, disks, periods) ==
    /\ pc = "init"
    /\ gtfs \in folders
    /\ disk \in disks
    /\ time_period \in periods
    /\ error = ""
    /\ stop_time_df = <<>>
    /\ trip_route_df = <<>>
    /\ stop_time_df_with_terminal = <<>>
    /\ frame = <<>>
    /\ node_df = <<>>
    /\ link_list = <<>>
    /\ link_df = <<>>
    /\ frame_size = [stop_ids |-> 0, service_stop_ids |-> 0]
    /\ node_id_range = <<>>

Init ==
    \/ Start(Folders, {CompleteDisk}, Periods)
    \/ Start({DiskFolder}, Disks, Periods)

\* GTFS2GMNS.__init__
Construct ==
    /\ pc = "init"
    /\ IF ~disk.gtfs_dir
       THEN /\ pc' = "failed"
            /\ error' = "ValueError: The input folder does not exist."
       ELSE IF ~disk.gtfs_result_dir
       THEN /\ pc' = "failed"
            /\ error' = "ValueError: The output folder does not exist."
       ELSE /\ pc' = "main"
            /\ error' = error
    /\ UNCHANGED <<gtfs, time_period, stop_time_df_with_terminal, frame, node_df, link_list,
                   link_df, frame_size, node_id_range, disk, stop_time_df, trip_route_df>>

\* read_gtfs_data; the required files are checked before any table is read, and
\* pd.concat raises ValueError on an empty output_list
ReadGtfsData ==
    /\ pc = "main"
    /\ IF ~check_required_files_exist(RequiredFiles, get_txt_files_from_folder(disk.files))
       THEN /\ pc' = "failed"
            /\ error' = "Exception: Error: Required files not exist in the folder!"
            /\ UNCHANGED <<stop_time_df_with_terminal, frame, stop_time_df, trip_route_df>>
       ELSE LET output_list ==
                    OutputList(StopTimeDf(gtfs), period_start_time, period_end_time)
            IN /\ trip_route_df' = TripRouteDf(gtfs)
               /\ stop_time_df' = StopTimeDf(gtfs)
               /\ IF output_list = <<>>
                  THEN /\ pc' = "failed"
                       /\ error' = "ValueError: No objects to concatenate"
                       /\ UNCHANGED <<stop_time_df_with_terminal, frame>>
                  ELSE /\ pc' = "create_nodes"
                       /\ error' = error
                       /\ stop_time_df_with_terminal' = Concat(output_list)
                       /\ frame' = EnrichedFrame(gtfs, Concat(output_list))
    /\ UNCHANGED <<gtfs, time_period, node_df, link_list, link_df, frame_size, node_id_range,
                   disk>>

CreateNodes ==
    /\ pc = "create_nodes"
    /\ node_df' = NodeDf(frame)
    /\ pc' = "create_service_boarding_links"
    /\ UNCHANGED <<gtfs, time_period, stop_time_df_with_terminal, frame, link_list, link_df,
                   frame_size, node_id_range, disk, error, stop_time_df, trip_route_df>>

CreateServiceBoardingLinks ==
    /\ pc = "create_service_boarding_links"
    /\ link_list' = link_list \o ServiceBoardingLinks(frame, node_df,
                                    period_start_time, period_end_time)
    /\ pc' = "create_transferring_links"
    /\ UNCHANGED <<gtfs, time_period, stop_time_df_with_terminal, frame, node_df, link_df,
                   frame_size, node_id_range, disk, error, stop_time_df, trip_route_df>>

CreateTransferringLinks ==
    /\ pc = "create_transferring_links"
    /\ link_list' = link_list \o TransferringLinks(node_df)
    /\ pc' = "drop_duplicates"
    /\ UNCHANGED <<gtfs, time_period, stop_time_df_with_terminal, frame, node_df, link_df,
                   frame_size, node_id_range, disk, error, stop_time_df, trip_route_df>>

\* the tail of main: the link table, deduplicated, and the return
Assemble ==
    /\ pc = "drop_duplicates"
    /\ link_df' = DedupLinks(link_list)
    /\ pc' = "done"
    /\ UNCHANGED <<gtfs, time_period, stop_time_df_with_terminal, frame, node_df, link_list,
                   frame_size, node_id_range, disk, error, stop_time_df, trip_route_df>>

Next ==
    \/ Construct
    \/ ReadGtfsData
    \/ CreateNodes
    \/ CreateServiceBoardingLinks
    \/ CreateTransferringLinks
    \/ Assemble

Spec == Init /\ [][Next]_vars

\* the runs on the folders with times past midnight
InitTimes == Start(OverflowFolders, {CompleteDisk}, Periods)

SpecTimes == InitTimes /\ [][Next]_vars

\* the runs on the folders with bad time cells
InitBlanks == Start(BlankFolders, {CompleteDisk}, Periods)

SpecBlanks == InitBlanks /\ [][Next]_vars

\* the runs on the folders with trips of an unlisted route
InitOrphans == Start(OrphanFolders, {CompleteDisk}, Periods)

SpecOrphans == InitOrphans /\ [][Next]_vars

\* the runs on the folders with many stops around a reference stop
InitCap == Start(CapFolders, {CompleteDisk}, Periods)

SpecCap == InitCap /\ [][Next]_vars

\* the runs on the folders with up to four trips per service, for several windows
InitWait == Start(FrequencyFolders, {CompleteDisk}, WaitPeriods)

SpecWait == InitWait /\ [][Next]_vars

(***************************************************************************)
(* create_nodes on a frame of any size: only the number of distinct        *)
(* stop_ids and of distinct directed_service_stop_ids decides the node_id  *)
(* columns, so a frame is given by these two counts.                       *)
(***************************************************************************)
SmallCount == 3
Spread == 7
\* the number of ids between the two bases
RangeLimit == ServiceBase - PhysicalBase - 1

\* numbers of distinct stop_ids: a few, and around the width of the physical id range
StopCounts == 1..SmallCount \cup ((RangeLimit - 1)..(RangeLimit + SmallCount))

\* every stop_id of the frame is part of at least one directed_service_stop_id
FrameSizes ==
    {[stop_ids |-> n, service_stop_ids |-> n + d] : n \in StopCounts, d \in 0..Spread}

\* the least and greatest node_id of the physical and of the service node table
NodeIdRange(size) ==
    [physical |-> <<PhysicalNodeId(1), PhysicalNodeId(size.stop_ids)>>,
     service |-> <<ServiceNodeId(1), ServiceNodeId(size.service_stop_ids)>>]

InitIds ==
    /\ pc = "sizing"
    /\ frame_size \in FrameSizes
    /\ node_id_range = <<>>
    /\ gtfs = <<>>
    /\ time_period \in Periods
    /\ stop_time_df_with_terminal = <<>>
    /\ frame = <<>>
    /\ node_df = <<>>
    /\ link_list = <<>>
    /\ link_df = <<>>
    /\ disk = <<>>
    /\ error = ""
    /\ stop_time_df = <<>>
    /\ trip_route_df = <<>>

CreateNodeIds ==
    /\ pc = "sizing"
    /\ node_id_range' = NodeIdRange(frame_size)
    /\ pc' = "sized"
    /\ UNCHANGED <<gtfs, time_period, stop_time_df_with_terminal, frame, node_df,
                   link_list, link_df, frame_size, disk, error, stop_time_df, trip_route_df>>

NextIds == CreateNodeIds

SpecIds == InitIds /\ [][NextIds]_vars

(***************************************************************************)
(* Properties                                                              *)
(***************************************************************************)
AfterRead == pc \in {"create_nodes", "create_service_boarding_links",
                     "create_transferring_links", "drop_duplicates", "done"}

AfterNodes == pc \in {"create_service_boarding_links", "create_transferring_links",
                      "drop_duplicates", "done"}

AfterServiceBoardingLinks == pc \in {"create_transferring_links", "drop_duplicates", "done"}

AfterTransferringLinks == pc \in {"drop_duplicates", "done"}

\* the node table is the physical nodes, one per distinct stop_id, then the service nodes
NumPhysical == Cardinality(Range(Column(frame, "stop_id")))
PhysicalIdx == 1..NumPhysical
ServiceIdx == (NumPhysical + 1)..Len(node_df)

PhysicalIds == {node_df[i].node_id : i \in PhysicalIdx}
ServiceIds == {node_df[i].node_id : i \in ServiceIdx}

\* the first row of the enriched frame with this directed_service_stop_id
CreatingRow(name) ==
    frame[CHOOSE i \in 1..Len(frame) :
              /\ frame[i].directed_service_stop_id = name
              /\ \A j \in 1..(i - 1) : frame[j].directed_service_stop_id # name]

\* C1: after create_nodes every physical node_id lies in [1_000_001, 1_499_999], every
\* service node_id is at least 1_500_001, and no node_id is both a physical and a
\* service node's, for any number of distinct stop_ids.
C1_NodeIdRangesDisjoint ==
    pc = "sized" =>
        /\ node_id_range.physical[1] >= PhysicalBase + 1
        /\ node_id_range.physical[2] <= ServiceBase - 1
        /\ node_id_range.service[1] >= ServiceBase + 1
        /\ node_id_range.physical[2] < node_id_range.service[1]

\* C2: every service node's physical_node_id is the node_id of exactly one physical
\* node, and that node's name is the stop_id of the frame row the service node was
\* created from.
C2_ServiceNodeResolves ==
    AfterNodes =>
        \A i \in ServiceIdx :
            LET ps == {j \in PhysicalIdx : node_df[j].node_id = node_df[i].physical_node_id}
            IN /\ Cardinality(ps) = 1
               /\ \A j \in ps : node_df[j].name = CreatingRow(node_df[i].name).stop_id

\* create_nodes has run and sorting by name has moved the first frame row's service
\* node away from the head of the service node table, whose nodes are at different stops
C2_Witness ==
    /\ AfterNodes
    /\ Len(node_df) >= NumPhysical + 2
    /\ node_df[NumPhysical + 1].name # frame[1].directed_service_stop_id
    /\ \E i \in ServiceIdx : node_df[i].physical_node_id # node_df[NumPhysical + 1].physical_node_id

ServiceLinkIdx(d) ==
    {i \in 1..Len(link_list) :
        link_list[i].link_type = 1 /\ link_list[i].directed_service_id = d}

ServiceNodeIdsOf(d) == {node_df[i].node_id : i \in {j \in ServiceIdx : node_df[j].directed_service_id = d}}

NodeIdByName(name) == node_df[CHOOSE i \in ServiceIdx : node_df[i].name = name].node_id

\* C3: for every directed_service_id whose representative trip has k rows, the service
\* links are k-1 links over k distinct service nodes of that service, each link joins
\* the nodes of two rows adjacent in stop_sequence order, and every node has at most
\* one outgoing and at most one incoming service link.
C3_ServiceChain ==
    AfterServiceBoardingLinks =>
        \A d \in Range(Column(frame, "directed_service_id")) :
            LET line == OneLineDf(ServiceGroup(frame, d))
                L == ServiceLinkIdx(d)
                nodes == ServiceNodeIdsOf(d)
            IN /\ Cardinality(L) = Len(line) - 1
               /\ Cardinality(nodes) = Len(line)
               /\ \A i \in L :
                      \E k \in 1..(Len(line) - 1) :
                          /\ link_list[i].from_node_id =
                                 NodeIdByName(line[k].directed_service_stop_id)
                          /\ link_list[i].to_node_id =
                                 NodeIdByName(line[k + 1].directed_service_stop_id)
               /\ \A n \in nodes :
                      /\ Cardinality({i \in L : link_list[i].from_node_id = n}) <= 1
                      /\ Cardinality({i \in L : link_list[i].to_node_id = n}) <= 1

BoardingIdx == {i \in 1..Len(link_list) : link_list[i].link_type = 2}

\* C4: before deduplication every service node has exactly one boarding link from its
\* physical node and exactly one alighting link to it, and every link of type 2 joins
\* one physical and one service node, the physical one being the service node's
\* physical_node_id.
C4_BoardingPairs ==
    AfterServiceBoardingLinks =>
        /\ \A s \in ServiceIdx :
              /\ Cardinality({i \in BoardingIdx :
                     /\ link_list[i].from_node_id = node_df[s].physical_node_id
                     /\ link_list[i].to_node_id = node_df[s].node_id}) = 1
              /\ Cardinality({i \in BoardingIdx :
                     /\ link_list[i].from_node_id = node_df[s].node_id
                     /\ link_list[i].to_node_id = node_df[s].physical_node_id}) = 1
              /\ Cardinality({i \in BoardingIdx :
                     node_df[s].node_id \in {link_list[i].from_node_id,
                                             link_list[i].to_node_id}}) = 2
        /\ \A i \in BoardingIdx :
              LET ends == {link_list[i].from_node_id, link_list[i].to_node_id}
              IN /\ Cardinality(ends \cap PhysicalIds) = 1
                 /\ Cardinality(ends \cap ServiceIds) = 1
                 /\ \E s \in ServiceIdx :
                        /\ node_df[s].node_id \in ends
                        /\ node_df[s].physical_node_id \in ends

\* the boarding links of at least two service nodes have been emitted
C4_Witness ==
    /\ pc = "create_transferring_links"
    /\ Cardinality(ServiceIdx) >= 2
    /\ Cardinality(BoardingIdx) >= 4

TransferIdx == {i \in 1..Len(link_list) : link_list[i].link_type = 3}

\* C5: every transfer link joins two physical nodes whose distance is between 1 m and
\* 321.869 m inclusive and whose (route_id, agency_name) differ.
C5_TransferEndpoints ==
    AfterTransferringLinks =>
        \A i \in TransferIdx :
            LET ps == {j \in PhysicalIdx : node_df[j].node_id = link_list[i].from_node_id}
                qs == {j \in PhysicalIdx : node_df[j].node_id = link_list[i].to_node_id}
            IN /\ Cardinality(ps) = 1
               /\ Cardinality(qs) = 1
               /\ \A p \in ps, q \in qs :
                      /\ NodeDistance(node_df[p], node_df[q]) >= MinTransferLength
                      /\ NodeDistance(node_df[p], node_df[q]) <= MaxTransferLength
                      /\ <<node_df[p].route_id, node_df[p].agency_name>> #
                             <<node_df[q].route_id, node_df[q].agency_name>>

\* transfer links were emitted although some pair of stops of different routes was
\* skipped: one pair for standing at the same point, another for being too far apart
C5_Witness ==
    /\ AfterTransferringLinks
    /\ TransferIdx # {}
    /\ \E p, q \in PhysicalIdx :
           /\ node_df[p].route_id # node_df[q].route_id
           /\ NodeDistance(node_df[p], node_df[q]) > MaxTransferLength
           /\ InBox(node_df[p], node_df[q])

\* the position of the last row of link_list with this endpoint pair
LastEmitted(pair) ==
    CHOOSE i \in 1..Len(link_list) :
        /\ EndpointPair(link_list[i]) = pair
        /\ \A j \in (i + 1)..Len(link_list) : EndpointPair(link_list[j]) # pair

\* C6: in the returned link table no two rows share (from_node_id, to_node_id), and
\* the row of every emitted pair is the one emitted last.
C6_DedupKeepsLast ==
    pc = "done" =>
        /\ \A i, j \in 1..Len(link_df) :
               EndpointPair(link_df[i]) = EndpointPair(link_df[j]) => i = j
        /\ \A i \in 1..Len(link_list) :
               \E k \in 1..Len(link_df) :
                   link_df[k] = link_list[LastEmitted(EndpointPair(link_list[i]))]
        /\ \A k \in 1..Len(link_df) :
               link_df[k] = link_list[LastEmitted(EndpointPair(link_df[k]))]

\* the run returned and a transfer pair was emitted twice, with different link_ids
C6_Witness ==
    /\ pc = "done"
    /\ \E i, j \in TransferIdx :
           /\ i < j
           /\ EndpointPair(link_list[i]) = EndpointPair(link_list[j])
           /\ link_list[i].link_id # link_list[j].link_id

\* the first arrival of a trip, from the rows of stop_times.txt
FirstArrival(trip_id) ==
    LET times == {ToMinutes(gtfs.stop_times[i].arrival_time) :
                     i \in {j \in 1..Len(gtfs.stop_times) :
                               gtfs.stop_times[j].trip_id = trip_id}}
    IN CHOOSE a \in times : \A b \in times : a <= b

StopTimeTripIds == Range(Column(gtfs.stop_times, "trip_id"))

TripInWindow(trip_id) ==
    period_start_time <= FirstArrival(trip_id) /\ FirstArrival(trip_id) <= period_end_time

\* C7: when no trip's first arrival lies in the window the run is not fatal: it
\* completes with an empty node table and an empty link table.
C7_EmptyWindowNotFatal ==
    (\A t \in StopTimeTripIds : ~TripInWindow(t)) =>
        /\ pc # "failed"
        /\ pc = "done" => node_df = <<>> /\ link_df = <<>>

InputTrip(trip_id) == CHOOSE t \in Range(gtfs.trips) : t.trip_id = trip_id

\* direction_id 0 recodes to 2, 1 to 1, and a missing column to 2
Recoded(trip) ==
    IF ~gtfs.has_direction THEN Str(2)
    ELSE IF trip.direction_id = 0 THEN Str(2) ELSE Str(1)

\* C8: in every row of the enriched frame directed_route_id is the row's route_id,
\* ".", and the recoded direction; directed_service_id is directed_route_id, ":" and
\* the stop_sequence_label; directed_service_stop_id is directed_route_id, ".", the
\* stop_id, ":" and the stop_sequence_label.
C8_IdComposition ==
    AfterRead =>
        \A i \in 1..Len(frame) :
            LET r == frame[i]
            IN /\ r.directed_route_id =
                      r.route_id \o <<Dot>> \o Recoded(InputTrip(r.trip_id))
               /\ r.directed_service_id =
                      r.directed_route_id \o <<Colon>> \o r.stop_sequence_label
               /\ r.directed_service_stop_id =
                      r.directed_route_id \o <<Dot>> \o r.stop_id \o <<Colon>>
                          \o r.stop_sequence_label

\* C9: a trip is in the enriched frame if and only if its first arrival is within
\* [period_start, period_end], both bounds included.
C9_WindowFilter ==
    (AfterRead \/ (pc = "failed" /\ error = "ValueError: No objects to concatenate")) =>
        \A t \in StopTimeTripIds :
            (t \in Range(Column(frame, "trip_id"))) <=> TripInWindow(t)

\* a trip of several stops that starts before the window and has later stops inside
\* it is left out, while a trip starting on the first minute of the window is kept
C9_Witness ==
    /\ pc = "create_nodes"
    /\ \E t, u \in StopTimeTripIds :
           /\ FirstArrival(t) < period_start_time
           /\ \E i \in 1..Len(gtfs.stop_times) :
                  /\ gtfs.stop_times[i].trip_id = t
                  /\ ToMinutes(gtfs.stop_times[i].arrival_time) >= period_start_time
           /\ t \notin Range(Column(frame, "trip_id"))
           /\ FirstArrival(u) = period_start_time
           /\ u \in Range(Column(frame, "trip_id"))

\* the positions in stop_time_df_with_terminal of a surviving trip's rows
LabelledIdx(trip_id) ==
    {i \in 1..Len(stop_time_df_with_terminal) :
        stop_time_df_with_terminal[i].trip_id = trip_id}

Flagged(trip_id, flag) ==
    {i \in LabelledIdx(trip_id) : stop_time_df_with_terminal[i].terminal_flag = flag}

\* exactly one origin, at the least stop_sequence; exactly one destination, at the
\* greatest; every other row intermediate
OneOriginOneDestination(trip_id) ==
    LET rows == LabelledIdx(trip_id)
        seq(i) == stop_time_df_with_terminal[i].stop_sequence
    IN /\ Cardinality(Flagged(trip_id, "origin")) = 1
       /\ Cardinality(Flagged(trip_id, "destination")) = 1
       /\ \A i \in Flagged(trip_id, "origin") : \A j \in rows : seq(i) <= seq(j)
       /\ \A i \in Flagged(trip_id, "destination") : \A j \in rows : seq(i) >= seq(j)
       /\ \A i \in rows :
              stop_time_df_with_terminal[i].terminal_flag
                  \in {"origin", "destination", "intermediate"}

NothingRead ==
    /\ stop_time_df = <<>>
    /\ trip_route_df = <<>>
    /\ stop_time_df_with_terminal = <<>>
    /\ frame = <<>>

NothingProduced == node_df = <<>> /\ link_list = <<>> /\ link_df = <<>>

MissingRequiredFiles == {f \in RequiredFiles : f \notin disk.files}

\* C11: when the input or the output directory does not exist the run stops in the
\* constructor with a ValueError, before read_gtfs_data; when a required file is
\* absent it stops in read_gtfs_data with an Exception before any table is read; in
\* both cases no node or link is produced.
C11_MissingInputsAbort ==
    /\ (~disk.gtfs_dir \/ ~disk.gtfs_result_dir) =>
           /\ pc \in {"init", "failed"}
           /\ NothingRead /\ NothingProduced
           /\ pc = "failed" =>
                  error = IF ~disk.gtfs_dir
                          THEN "ValueError: The input folder does not exist."
                          ELSE "ValueError: The output folder does not exist."
    /\ (disk.gtfs_dir /\ disk.gtfs_result_dir /\ MissingRequiredFiles # {}) =>
           /\ pc \in {"init", "main", "failed"}
           /\ NothingRead /\ NothingProduced
           /\ pc = "failed" =>
                  error = "Exception: Error: Required files not exist in the folder!"

\* both directories exist, exactly one required file is absent (a file of the same
\* stem with another extension is there) and the run has stopped
C11_Witness ==
    /\ pc = "failed"
    /\ disk.gtfs_dir /\ disk.gtfs_result_dir
    /\ MissingRequiredFiles = {<<"agency", "txt">>}
    /\ <<"agency", "csv">> \in disk.files
    /\ error = "Exception: Error: Required files not exist in the folder!"

ConcatFailed == pc = "failed" /\ error = "ValueError: No objects to concatenate"

\* the row of stop_times.txt with this (trip_id, stop_sequence)
RawRow(trip_id, seq) ==
    CHOOSE r \in Range(gtfs.stop_times) : r.trip_id = trip_id /\ r.stop_sequence = seq

IsTime(c) == DOMAIN c = {"h", "m", "s"}

\* C12: every converted arrival_time and departure_time is HH*60 + MM of the cell
\* HH:MM:SS it was read from, for hours past 24 too (25:10:00 gives 1510), and a trip
\* whose rows all lie after the end of the window 0700_0800 is not selected.
C12_TimeConversion ==
    (AfterRead \/ ConcatFailed) =>
        /\ \A i \in 1..Len(stop_time_df) :
               LET raw == RawRow(stop_time_df[i].trip_id, stop_time_df[i].stop_sequence)
               IN /\ stop_time_df[i].arrival_time =
                         raw.arrival_time.h * 60 + raw.arrival_time.m
                  /\ stop_time_df[i].departure_time =
                         raw.departure_time.h * 60 + raw.departure_time.m
                  /\ raw.arrival_time = Time(25, 10, 0) =>
                         stop_time_df[i].arrival_time = 1510
        /\ \A t \in Range(Column(gtfs.stop_times, "trip_id")) :
               (\A r \in Range(gtfs.stop_times) :
                    r.trip_id = t => r.arrival_time.h * 60 + r.arrival_time.m > 8 * 60)
                   => t \notin Range(Column(frame, "trip_id"))

\* a trip whose first stop is at 25:10:00 and whose second is later still has been
\* converted, its first arrival is 1510, and it was not selected
C12_Witness ==
    /\ ConcatFailed
    /\ Len(stop_time_df) = 2
    /\ RawRow(20, 1).arrival_time = Time(25, 10, 0)
    /\ RawRow(20, 2).arrival_time = Time(31, 0, 0)
    /\ stop_time_df[1].arrival_time = 1510
    /\ stop_time_df[2].arrival_time = 1860
    /\ frame = <<>>

\* the positions in link_list of the service and boarding links, which are emitted
\* before any transfer link
ServiceBoardingIdx == {i \in 1..Len(link_list) : link_list[i].link_type \in {1, 2}}

\* C13: the link_ids of the service links and then of the boarding and alighting
\* links start at 1_000_001 and strictly increase in emission order, so the first
\* boarding link's id is greater than the last service link's id.
C13_LinkIdsIncrease ==
    AfterServiceBoardingLinks =>
        /\ \A i \in ServiceBoardingIdx :
               (\A j \in ServiceBoardingIdx : i <= j) => link_list[i].link_id = LinkIdBase + 1
        /\ \A i, j \in ServiceBoardingIdx :
               i < j => link_list[i].link_id < link_list[j].link_id

\* the rows of stop_times.txt with a bad arrival or departure cell
BadRows ==
    {r \in Range(gtfs.stop_times) :
        r.arrival_time \in BadCells \/ r.departure_time \in BadCells}

\* C14: no row of stop_times.txt whose arrival_time or departure_time is null, empty
\* or a single blank is in the converted stop-time table or in the enriched frame.
C14_BadTimesDropped ==
    (AfterRead \/ ConcatFailed) =>
        \A r \in BadRows :
            /\ \A i \in 1..Len(stop_time_df) :
                   ~(stop_time_df[i].trip_id = r.trip_id
                       /\ stop_time_df[i].stop_sequence = r.stop_sequence)
            /\ \A i \in 1..Len(frame) :
                   ~(frame[i].trip_id = r.trip_id
                       /\ frame[i].stop_sequence = r.stop_sequence)

\* C15: every trip of trips.txt appears exactly once in the merged trips x routes
\* table, so the table has as many rows as trips.txt, also when the route_id of a
\* trip is not in routes.txt.
C15_LeftMerge ==
    (AfterRead \/ ConcatFailed) =>
        /\ Len(trip_route_df) = Len(gtfs.trips)
        /\ \A t \in Range(gtfs.trips) :
               Cardinality({i \in 1..Len(trip_route_df) :
                               trip_route_df[i].trip_id = t.trip_id}) = 1

\* the transfer links in emission order: pair k is at positions 2k - 1 and 2k
TransferSeq == SubSeq(link_list, Cardinality(ServiceBoardingIdx) + 1, Len(link_list))

\* the pairs emitted in the pass over the origin with this node_id
PairsFrom(node_id) ==
    {k \in 1..(Len(TransferSeq) \div 2) : TransferSeq[2 * k - 1].from_node_id = node_id}

\* the physical nodes in the bounding box of node_df[p] that are of another
\* (route_id, agency_name) at a distance within [1 m, 321.869 m]
Eligible(p) ==
    {q \in PhysicalIdx :
        /\ InBox(node_df[p], node_df[q])
        /\ RouteKey(node_df[q]) # RouteKey(node_df[p])
        /\ NodeDistance(node_df[p], node_df[q]) >= MinTransferLength
        /\ NodeDistance(node_df[p], node_df[q]) <= MaxTransferLength}

EligibleKeys(p) == {RouteKey(node_df[q]) : q \in Eligible(p)}

Min(a, b) == IF a <= b THEN a ELSE b

\* C16: the pass over an origin P emits min(10, n) reciprocal pairs, n being the
\* number of distinct (route_id, agency_name) among its eligible candidates; each
\* pair goes to the first eligible candidate, in table order, of its
\* (route_id, agency_name), and no two pairs of P go to the same one.
C16_TransferCap ==
    AfterTransferringLinks =>
        /\ Len(TransferSeq) % 2 = 0
        /\ \A p \in PhysicalIdx :
               LET pairs == PairsFrom(node_df[p].node_id)
               IN /\ Cardinality(pairs) = Min(MaxTransfers, Cardinality(EligibleKeys(p)))
                  /\ \A k \in pairs :
                         /\ TransferSeq[2 * k].from_node_id = TransferSeq[2 * k - 1].to_node_id
                         /\ TransferSeq[2 * k].to_node_id = node_df[p].node_id
                         /\ \E q \in Eligible(p) :
                                /\ node_df[q].node_id = TransferSeq[2 * k - 1].to_node_id
                                /\ \A r \in Eligible(p) :
                                       RouteKey(node_df[r]) = RouteKey(node_df[q]) => q <= r
                  /\ \A k, l \in pairs :
                         TransferSeq[2 * k - 1].to_node_id = TransferSeq[2 * l - 1].to_node_id
                             => k = l

\* scenario D: the first physical node has 12 eligible candidates of 12 routes, one
\* of them after a candidate that is out of the length window, and its pass has
\* emitted 10 pairs (20 links)
C16_Witness ==
    /\ AfterTransferringLinks
    /\ Cardinality(Eligible(1)) = 12
    /\ Cardinality(EligibleKeys(1)) = 12
    /\ Cardinality(PairsFrom(node_df[1].node_id)) = 10

\* the directed_service_id of a trip that survived the window filter: the
\* directed_route_id of its row of trips.txt, ":" and its stop_sequence_label
ServiceIdOfTrip(trip_id) ==
    LET trip == CHOOSE t \in Range(TripDf(gtfs)) : t.trip_id = trip_id
        labelled == CHOOSE r \in Range(stop_time_df_with_terminal) : r.trip_id = trip_id
    IN trip.directed_route_id \o <<Colon>> \o labelled.stop_sequence_label

\* the number of surviving trips of a directed service
SurvivingTrips(d) ==
    Cardinality({t \in Range(Column(stop_time_df_with_terminal, "trip_id")) :
                    ServiceIdOfTrip(t) = d})

\* the fraction <<a, b>> equals c / d
FractionIs(x, c, d) == x[1] * d = c * x[2]

\* C17: the inbound boarding link of every service node has VDF_fftt1 = min(10,
\* 0.5 * (period_end - period_start) / f) and its outbound link has VDF_fftt1 = 1,
\* f being the number of surviving trips of the node's directed_service_id; f is
\* also the lanes of that service's service links.
C17_BoardingWait ==
    AfterServiceBoardingLinks =>
        /\ \A s \in ServiceIdx :
               LET f == SurvivingTrips(node_df[s].directed_service_id)
                   width == period_end_time - period_start_time
               IN /\ f >= 1
                  /\ \A i \in BoardingIdx :
                         /\ (/\ link_list[i].from_node_id = node_df[s].physical_node_id
                             /\ link_list[i].to_node_id = node_df[s].node_id)
                                => IF width <= 2 * f * 10
                                   THEN FractionIs(link_list[i].VDF_fftt1, width, 2 * f)
                                   ELSE FractionIs(link_list[i].VDF_fftt1, 10, 1)
                         /\ (/\ link_list[i].from_node_id = node_df[s].node_id
                             /\ link_list[i].to_node_id = node_df[s].physical_node_id)
                                => FractionIs(link_list[i].VDF_fftt1, 1, 1)
        /\ \A i \in 1..Len(link_list) :
               link_list[i].link_type = 1 =>
                   link_list[i].lanes = SurvivingTrips(link_list[i].directed_service_id)

\* a 30 minute window: one service has two surviving trips and a wait of 7.5
\* minutes, another has one trip and the capped wait of 10 minutes, a third trip
\* of the first service's pattern starts after the window
C17_Witness ==
    /\ AfterServiceBoardingLinks
    /\ period_end_time - period_start_time = 30
    /\ Cardinality(Range(Column(gtfs.stop_times, "trip_id"))) >
           Cardinality(Range(Column(stop_time_df_with_terminal, "trip_id")))
    /\ \E s, t \in ServiceIdx :
           /\ SurvivingTrips(node_df[s].directed_service_id) = 2
           /\ SurvivingTrips(node_df[t].directed_service_id) = 1
           /\ \E i, j \in BoardingIdx :
                  /\ link_list[i].to_node_id = node_df[s].node_id
                  /\ link_list[i].VDF_fftt1 = <<30, 4>>
                  /\ link_list[j].to_node_id = node_df[t].node_id
                  /\ link_list[j].VDF_fftt1 = <<10, 1>>

\* the rows of the returned link table that are transfer links
FinalTransferIdx == {i \in 1..Len(link_df) : link_df[i].link_type = 3}

\* C18: in the returned link table a transfer link P->Q is present if and only if
\* the transfer link Q->P is present.
C18_TransferSymmetry ==
    pc = "done" =>
        \A i \in FinalTransferIdx :
            \E j \in FinalTransferIdx :
                /\ link_df[j].from_node_id = link_df[i].to_node_id
                /\ link_df[j].to_node_id = link_df[i].from_node_id

\* the row of the physical node with this node_id
PhysicalNode(node_id) == node_df[CHOOSE p \in PhysicalIdx : node_df[p].node_id = node_id]

\* the returned table joins a node to two nodes of one route: its own pass chose one
\* of them, the other is there because its pass chose this node
C18_Witness ==
    /\ pc = "done"
    /\ \E i, j \in FinalTransferIdx :
           /\ link_df[i].from_node_id = link_df[j].from_node_id
           /\ link_df[i].to_node_id # link_df[j].to_node_id
           /\ RouteKey(PhysicalNode(link_df[i].to_node_id)) =
                  RouteKey(PhysicalNode(link_df[j].to_node_id))

\* the emitted links that are not a row of the returned table
Removed == {i \in 1..Len(link_list) : \A k \in 1..Len(link_df) : link_df[k] # link_list[i]}

\* C19: a link removed by the final deduplication has the endpoints of a returned
\* link of the same link_type; no boarding or alighting link is removed; in the
\* returned table every service node has exactly one boarding and one alighting link.
C19_DedupWithinKind ==
    pc = "done" =>
        /\ \A i \in Removed :
               /\ link_list[i].link_type # 2
               /\ \A k \in 1..Len(link_df) :
                      (/\ link_df[k].from_node_id = link_list[i].from_node_id
                       /\ link_df[k].to_node_id = link_list[i].to_node_id)
                          => link_df[k].link_type = link_list[i].link_type
        /\ \A s \in ServiceIdx :
               /\ Cardinality({k \in 1..Len(link_df) :
                      /\ link_df[k].link_type = 2
                      /\ link_df[k].from_node_id = node_df[s].physical_node_id
                      /\ link_df[k].to_node_id = node_df[s].node_id}) = 1
               /\ Cardinality({k \in 1..Len(link_df) :
                      /\ link_df[k].link_type = 2
                      /\ link_df[k].from_node_id = node_df[s].node_id
                      /\ link_df[k].to_node_id = node_df[s].physical_node_id}) = 1

\* the deduplication has removed a service link and a transfer link, and some stop
\* has two service nodes, each with its own boarding link from the stop
C19_Witness ==
    /\ pc = "done"
    /\ \E i, j \in Removed : link_list[i].link_type = 1 /\ link_list[j].link_type = 3
    /\ \E s, t \in ServiceIdx :
           s # t /\ node_df[s].physical_node_id = node_df[t].physical_node_id

\* C20: in a completed run the node_ids of the node table are pairwise different and
\* each from_node_id and to_node_id of the returned link table is the node_id of
\* exactly one row of the node table.
C20_ReferentialIntegrity ==
    pc = "done" =>
        /\ \A i, j \in 1..Len(node_df) : node_df[i].node_id = node_df[j].node_id => i = j
        /\ \A k \in 1..Len(link_df) :
               /\ Cardinality({i \in 1..Len(node_df) :
                                   node_df[i].node_id = link_df[k].from_node_id}) = 1
               /\ Cardinality({i \in 1..Len(node_df) :
                                   node_df[i].node_id = link_df[k].to_node_id}) = 1

\* a completed run whose link table holds links of the three kinds over three
\* physical and at least four service nodes
C20_Witness ==
    /\ pc = "done"
    /\ NumPhysical = 3
    /\ Cardinality(ServiceIdx) >= 4
    /\ \A kind \in {1, 2, 3} : \E k \in 1..Len(link_df) : link_df[k].link_type = kind

====
